---- MODULE Spec2Model ----
(***************************************************************************)
(* A model of script.js (src/jss.js): the microplastics demo page.         *)
(*                                                                         *)
(* State: the in-memory history (allImages), the DOM lists built from it  *)
(* (imageGrid cards, history-table rows), the data of the two charts, the  *)
(* FileReader reads in flight, the pending setTimeout callbacks, and what  *)
(* the export handlers hand to the browser (alerts, downloads, windows).   *)
(*                                                                         *)
(* JavaScript strings are TLA+ strings; arrays are sequences (the JS index *)
(* i is the TLA+ index i + 1).  Math.random() is a rational k / RandRes.   *)
(* The character U+00B5 of SIZE_BUCKETS is written "u".                    *)
(***************************************************************************)
EXTENDS Integers, Sequences, FiniteSets, TLC

\* ------------------------------------------------------------- bounds

\* Files selected over a whole run.
MaxFiles == 2
\* Clicks on the two export buttons over a whole run.
MaxClicks == 1
\* Math.random() returns k / RandRes, k in 0 .. RandRes - 1.
RandRes == 6

\* ---------------------------------------------------------- constants

TYPES == <<"Fiber", "Fragment", "Pellet", "Microbead">>
SIZE_BUCKETS == <<"<10 um", "10-50 um", "50-100 um", ">100 um">>

\* Math.floor(Math.random() * CountRange), line 104.
CountRange == 6
\* shortName: names longer than ShortMax are cut to ShortKeep characters.
ShortMax == 18
ShortKeep == 15

\* The value of an out-of-range array read.
Undefined == "undefined"

\* ------------------------------------------------- JavaScript helpers

CharAt(s, i) == SubSeq(s, i, i)

\* String(n) for a natural number n.
RECURSIVE NatToString(_)
NatToString(n) ==
  IF n < 10 THEN CharAt("0123456789", n + 1)
  ELSE NatToString(n \div 10) \o CharAt("0123456789", (n % 10) + 1)

\* Number(s) for a string "<digits>.<digit>", in tenths.
RECURSIVE DigitsValue(_, _)
DigitsValue(s, acc) ==
  IF s = "" THEN acc
  ELSE LET c == CharAt(s, 1)
           d == CHOOSE k \in 0..9 : CharAt("0123456789", k + 1) = c
       IN DigitsValue(SubSeq(s, 2, Len(s)), 10 * acc + d)

NumberTenths(s) ==
  LET dot == CHOOSE i \in 1..Len(s) : CharAt(s, i) = "."
  IN 10 * DigitsValue(SubSeq(s, 1, dot - 1), 0)
       + DigitsValue(SubSeq(s, dot + 1, Len(s)), 0)

\* (num / den).toFixed(1): rounded to the nearest tenth, halves up.
ToFixed1(num, den) ==
  LET t == (20 * num + den) \div (2 * den)
  IN NatToString(t \div 10) \o "." \o NatToString(t % 10)

\* Math.floor((k / RandRes) * n)
FloorRandom(k, n) == (k * n) \div RandRes

\* arr.reduce((a,b) => a+b, 0)
RECURSIVE SumSeq(_)
SumSeq(arr) == IF arr = <<>> THEN 0 ELSE Head(arr) + SumSeq(Tail(arr))

\* Math.max(...arr) of a non-empty array
RECURSIVE MathMax(_)
MathMax(arr) ==
  IF Len(arr) = 1 THEN arr[1]
  ELSE LET m == MathMax(Tail(arr)) IN IF arr[1] >= m THEN arr[1] ELSE m

\* A faulty variant of indexOf: the last index, not the first.
lastIndexOf(arr, v) ==
  IF \E i \in 1..Len(arr) : arr[i] = v
  THEN (CHOOSE i \in 1..Len(arr) :
          arr[i] = v /\ \A j \in (i + 1)..Len(arr) : arr[j] # v) - 1
  ELSE -1

\* arr.indexOf(v): the JS index of the first element equal to v, or -1.
RECURSIVE IndexFrom(_, _, _)
IndexFrom(arr, v, i) ==
  IF i > Len(arr) THEN -1
  ELSE IF arr[i] = v THEN i - 1
  ELSE IndexFrom(arr, v, i + 1)

indexOf(arr, v) == IndexFrom(arr, v, 1)

\* arr[idx] for a JS index idx
ArrayGet(arr, idx) == IF idx \in 0..(Len(arr) - 1) THEN arr[idx + 1] ELSE Undefined

\* arr.join(sep) for an array of strings
RECURSIVE Join(_, _)
Join(arr, sep) ==
  IF arr = <<>> THEN ""
  ELSE IF Len(arr) = 1 THEN arr[1]
  ELSE arr[1] \o sep \o Join(Tail(arr), sep)

\* arr.map(String) for an array of numbers
Strings(arr) == [i \in 1..Len(arr) |-> NatToString(arr[i])]

\* A faulty variant of ArrayPush: unshift.
ArrayUnshift(arr, x) == <<x>> \o arr

\* A faulty variant of ArrayPush: the array is replaced by one holding x alone.
ArrayAssign(arr, x) == <<x>>

\* arr.push(x)
ArrayPush(arr, x) == Append(arr, x)

\* ------------------------------------------------------- the program

\* shortName: long names are cut and end in "...".
shortName(name) ==
  IF Len(name) > ShortMax THEN SubSeq(name, 1, ShortKeep) \o "..." ELSE name

\* A faulty variant of fakeDetection: without the "at least 1 detection" line.
fakeDetectionNoFloor(d) ==
  [counts   |-> [i \in 1..Len(TYPES) |-> FloorRandom(d[i], CountRange)],
   size     |-> SIZE_BUCKETS[FloorRandom(d[5], Len(SIZE_BUCKETS)) + 1],
   accuracy |-> ToFixed1(70 * RandRes + 29 * d[6], RandRes)]

\* fakeDetection: d holds the six Math.random() results, in call order.
fakeDetection(d) ==
  LET drawn  == [i \in 1..Len(TYPES) |-> FloorRandom(d[i], CountRange)]
      counts == IF SumSeq(drawn) = 0 THEN [drawn EXCEPT ![1] = 1] ELSE drawn
  IN [counts   |-> counts,
      size     |-> SIZE_BUCKETS[FloorRandom(d[5], Len(SIZE_BUCKETS)) + 1],
      accuracy |-> ToFixed1(70 * RandRes + 29 * d[6], RandRes)]

\* TYPES[counts.indexOf(Math.max(...counts))]
DominantType(counts) == ArrayGet(TYPES, indexOf(counts, MathMax(counts)))

\* ------------------------------------------------------------ inputs

\* The files the user can pick: a name with a quote and a comma, and a name
\* of ShortMax + 1 characters.
Files ==
  { [name |-> "a\",b.png",           data |-> "data:1"],
    [name |-> "river_sample_01.png", data |-> "data:2"] }

\* A FileList: no file twice.
FileLists(n) ==
  UNION { { s \in [1..k -> Files] : \A i, j \in 1..k : s[i] = s[j] => i = j }
          : k \in 0..n }

\* The outcomes of the six Math.random() calls of one fakeDetection: every
\* outcome of the four counts, the least and the greatest outcome of the
\* size and of the accuracy.
AllDraws ==
  { c \o t : c \in [1..4 -> 0..(RandRes - 1)],
             t \in [1..2 -> {0, RandRes - 1}] }

\* The outcomes used where several detections run: all counts 0, and a tie
\* for the maximum between the second and the third type.
SampleDraws ==
  { d \in { <<0, 0, 0, 0, 0, 0>>, <<1, 3, 3, 0, 2, 3>> } :
      \A i \in 1..6 : d[i] < RandRes }

\* The data-tab values of the nav links (they live in the HTML page).
Tabs == {"upload", "history"}

\* ------------------------------------------------------------- state

VARIABLES
  fileInputFiles, \* fileInput.files after the change handler
  uploaded,       \* history: every file selected, in selection order
  pending,        \* positions in uploaded whose read is in flight
  allImages,      \* the in-memory history
  cards,          \* imageGrid's children, first child first
  tableRows,      \* historyTableBody's rows
  charts,         \* the data of compositionChart and accuracyChart
  chartTimers,    \* pending setTimeout(updateCharts, 100) callbacks
  chartRuns,      \* history: executions of updateCharts
  maxTimers,      \* history: the most chart timers pending at once
  notices,        \* the alert() messages shown
  downloads,      \* the CSV documents handed to the browser
  openCalls,      \* calls of window.open() made
  windows,        \* the documents written to the opened print windows
  printTimers,    \* pending setTimeout(print, 400) callbacks
  prints,         \* executions of printWindow.print()
  activeTab       \* the nav link and section with class "active"

vars == <<fileInputFiles, uploaded, pending, allImages, cards,
          tableRows, charts, chartTimers, chartRuns, maxTimers, notices,
          downloads, openCalls, windows, printTimers, prints, activeTab>>

uploadVars == <<fileInputFiles, uploaded, pending>>
viewVars   == <<cards, tableRows, charts, chartTimers, chartRuns, maxTimers>>
exportVars == <<notices, downloads, openCalls, windows, printTimers, prints>>

EmptyCharts ==
  [compLabels |-> <<>>,
   compData   |-> [i \in 1..Len(TYPES) |-> <<>>],
   accLabels  |-> <<>>,
   accData    |-> <<>>]

\* The page with nothing analysed yet.
Blank ==
  /\ fileInputFiles = <<>>
  /\ allImages = <<>>
  /\ cards = <<>>
  /\ tableRows = <<>>
  /\ charts = EmptyCharts
  /\ chartTimers = 0
  /\ chartRuns = 0
  /\ maxTimers = 0
  /\ notices = <<>>
  /\ downloads = <<>>
  /\ openCalls = 0
  /\ windows = <<>>
  /\ printTimers = 0
  /\ prints = 0

Init ==
  /\ Blank
  /\ uploaded = <<>>
  /\ pending = {}
  /\ activeTab \in Tabs

\* ----------------------------------------------------------- actions

\* A faulty variant of updateCharts: the labels are the file names.
updateChartsByName(images) ==
  [compLabels |-> [i \in 1..Len(images) |-> images[i].name],
   compData   |-> [t \in 1..Len(TYPES) |->
                     [i \in 1..Len(images) |-> images[i].counts[t]]],
   accLabels  |-> [i \in 1..Len(images) |-> images[i].name],
   accData    |-> [i \in 1..Len(images) |-> NumberTenths(images[i].accuracy)]]

\* updateCharts: both charts' labels and data, rebuilt from allImages.
updateCharts(images) ==
  LET labels == [i \in 1..Len(images) |-> images[i].shortName]
  IN [compLabels |-> labels,
      compData   |-> [t \in 1..Len(TYPES) |->
                        [i \in 1..Len(images) |-> images[i].counts[t]]],
      accLabels  |-> labels,
      accData    |-> [i \in 1..Len(images) |-> NumberTenths(images[i].accuracy)]]

\* addHistoryRow: historyTableBody.appendChild(tr)
addHistoryRow(rows, imgObj) ==
  LET domTypeIndex == indexOf(imgObj.counts, MathMax(imgObj.counts))
      found        == ArrayGet(TYPES, domTypeIndex)
      domType      == IF found = Undefined THEN "Unknown" ELSE found
  IN Append(rows, [name     |-> imgObj.name,
                   domType  |-> domType,
                   size     |-> imgObj.size,
                   accuracy |-> imgObj.accuracy \o "%"])

\* The card built by reader.onload for a file and its detection.
Card(file, det) ==
  LET short == shortName(file.name)
  IN [src      |-> file.data,
      alt      |-> short,
      h3       |-> short,
      domType  |-> DominantType(det.counts),
      size     |-> det.size,
      accuracy |-> det.accuracy \o "%",
      counts   |-> "Counts: " \o Join(Strings(det.counts), ", ")]

\* A faulty variant of Prepend: the card goes last.
AppendChild(list, node) == Append(list, node)

\* imageGrid.prepend(card)
Prepend(list, node) == <<node>> \o list

\* A faulty variant of SetTimeout: a debounce, the pending callback is replaced.
SetTimeoutDebounced(timers) == 1

\* setTimeout(callback, delay) of one kind of callback: one more pending.
SetTimeout(timers) == timers + 1

Max2(a, b) == IF a >= b THEN a ELSE b

\* The change handler of fileInput, for the FileList the user picked.
FileInputChange ==
  \E files \in FileLists(MaxFiles - Len(uploaded)) :
    IF Len(files) = 0
    THEN UNCHANGED vars
    ELSE /\ uploaded' = uploaded \o files
         /\ pending' = pending \cup ((Len(uploaded) + 1)..(Len(uploaded) + Len(files)))
         /\ fileInputFiles' = <<>>
         /\ UNCHANGED <<allImages, viewVars, exportVars, activeTab>>

\* reader.onload of the read at position p, with the random outcomes d.
ReaderOnload(p, d) ==
  LET file   == uploaded[p]
      det    == fakeDetection(d)
      imgObj == [name      |-> file.name,
                 shortName |-> shortName(file.name),
                 counts    |-> det.counts,
                 size      |-> det.size,
                 accuracy  |-> det.accuracy]
  IN /\ p \in pending
     /\ pending' = pending \ {p}
     /\ cards' = Prepend(cards, Card(file, det))
     /\ allImages' = ArrayPush(allImages, imgObj)
     /\ tableRows' = addHistoryRow(tableRows, imgObj)
     /\ chartTimers' = SetTimeout(chartTimers)
     /\ maxTimers' = Max2(maxTimers, chartTimers')
     /\ UNCHANGED <<fileInputFiles, uploaded, charts, chartRuns, exportVars, activeTab>>

\* A read completes, with one of the sampled random outcomes.
ReaderOnloadSample == \E p \in pending, d \in SampleDraws : ReaderOnload(p, d)

\* A read completes, with any random outcome.
ReaderOnloadAny == \E p \in pending, d \in AllDraws : ReaderOnload(p, d)

\* A setTimeout(updateCharts, 100) callback fires.
ChartTimeout ==
  /\ chartTimers > 0
  /\ chartTimers' = chartTimers - 1
  /\ charts' = updateCharts(allImages)
  /\ chartRuns' = chartRuns + 1
  /\ UNCHANGED <<uploadVars, allImages, cards, tableRows, maxTimers, exportVars,
                 activeTab>>

\* A click on a nav link: that tab alone is active.
NavClick ==
  \E tab \in Tabs :
    /\ activeTab' = tab
    /\ UNCHANGED <<uploadVars, allImages, viewVars, exportVars>>

\* ----------------------------------------------------------- exports

NoHistoryDownload == "No history to download."
NoHistoryPrint    == "No history to print."
PopupBlocked      == "Popup blocked. Allow popups and try again."

\* s.replace(/"/g, '""')
RECURSIVE ReplaceQuotes(_)
ReplaceQuotes(s) ==
  IF s = "" THEN ""
  ELSE (IF CharAt(s, 1) = "\"" THEN "\"\"" ELSE CharAt(s, 1))
         \o ReplaceQuotes(SubSeq(s, 2, Len(s)))

\* A faulty variant of CsvCell: the quotes of the cell are not doubled.
CsvCellRaw(c) == "\"" \o c \o "\""

\* `"${String(c).replace(/"/g,'""')}"`
CsvCell(c) == "\"" \o ReplaceQuotes(c) \o "\""

\* The row of one image (String(c) of line 181 applied to the counts).
CsvRow(img) ==
  <<img.name, DominantType(img.counts), img.size, img.accuracy \o "%">>
    \o Strings(img.counts)

\* rows of downloadCSV: the header, then one row per image.
CsvRows(images) ==
  <<(<<"Image", "DominantType", "Size", "Accuracy">> \o TYPES)>>
    \o [i \in 1..Len(images) |-> CsvRow(images[i])]

\* csvContent of downloadCSV
CsvContent(rows) ==
  Join([i \in 1..Len(rows) |->
          Join([j \in 1..Len(rows[i]) |-> CsvCell(rows[i][j])], ",")], "\n")

CsvFile(images) ==
  [download |-> "microplastics_history.csv",
   type     |-> "text/csv;charset=utf-8;",
   content  |-> CsvContent(CsvRows(images))]

\* A faulty variant of downloadCSV: the alert does not end the function.
downloadCSVNoReturn ==
  /\ notices' = IF Len(allImages) = 0
                THEN Append(notices, NoHistoryDownload) ELSE notices
  /\ downloads' = Append(downloads, CsvFile(allImages))
  /\ UNCHANGED <<openCalls, windows, printTimers, prints>>

downloadCSV ==
  IF Len(allImages) = 0
  THEN /\ notices' = Append(notices, NoHistoryDownload)
       /\ UNCHANGED <<downloads, openCalls, windows, printTimers, prints>>
  ELSE /\ downloads' = Append(downloads, CsvFile(allImages))
       /\ UNCHANGED <<notices, openCalls, windows, printTimers, prints>>

\* The clicks on the export buttons so far: each shows an empty-history
\* notice, downloads a file or calls window.open().
Clicks ==
  Cardinality({i \in 1..Len(notices) : notices[i] \in {NoHistoryDownload, NoHistoryPrint}})
    + Len(downloads) + openCalls

\* A click on downloadCsvBtn.
DownloadCsvClick ==
  /\ Clicks < MaxClicks
  /\ downloadCSV
  /\ UNCHANGED <<uploadVars, allImages, viewVars, activeTab>>

\* The document printReport writes (the "Generated:" time is left out).
ReportDocument(images) ==
  [h1   |-> "Microplastic Detection Report",
   head |-> <<"Image", "Dominant Type", "Size", "Accuracy">>,
   rows |-> [i \in 1..Len(images) |->
               <<images[i].name, DominantType(images[i].counts),
                 images[i].size, images[i].accuracy \o "%">>]]

\* A faulty variant of printReport: the result of window.open() is not tested,
\* and writing to the document of null throws.
printReportNoNullCheck(opened) ==
  IF Len(allImages) = 0
  THEN /\ notices' = Append(notices, NoHistoryPrint)
       /\ UNCHANGED <<downloads, openCalls, windows, printTimers, prints>>
  ELSE IF ~opened
  THEN /\ openCalls' = openCalls + 1
       /\ UNCHANGED <<notices, downloads, windows, printTimers, prints>>
  ELSE /\ openCalls' = openCalls + 1
       /\ windows' = Append(windows, ReportDocument(allImages))
       /\ printTimers' = SetTimeout(printTimers)
       /\ UNCHANGED <<notices, downloads, prints>>

\* printReport; opened: whether window.open() returned a window.
printReport(opened) ==
  IF Len(allImages) = 0
  THEN /\ notices' = Append(notices, NoHistoryPrint)
       /\ UNCHANGED <<downloads, openCalls, windows, printTimers, prints>>
  ELSE IF ~opened
  THEN /\ openCalls' = openCalls + 1
       /\ notices' = Append(notices, PopupBlocked)
       /\ UNCHANGED <<downloads, windows, printTimers, prints>>
  ELSE /\ openCalls' = openCalls + 1
       /\ windows' = Append(windows, ReportDocument(allImages))
       /\ printTimers' = SetTimeout(printTimers)
       /\ UNCHANGED <<notices, downloads, prints>>

\* A click on printReportBtn, window.open() giving a window or null.
PrintReportWith(opened) ==
  /\ Clicks < MaxClicks
  /\ printReport(opened)
  /\ UNCHANGED <<uploadVars, allImages, viewVars, activeTab>>

PrintReportClick == \E opened \in BOOLEAN : PrintReportWith(opened)

\* A setTimeout(() => printWindow.print(), 400) callback fires.
PrintTimeout ==
  /\ printTimers > 0
  /\ printTimers' = printTimers - 1
  /\ prints' = prints + 1
  /\ UNCHANGED <<uploadVars, allImages, viewVars, notices, downloads, openCalls,
                 windows, activeTab>>

\* ---------------------------------------------------- specifications

Next ==
  \/ FileInputChange
  \/ ReaderOnloadSample
  \/ ChartTimeout
  \/ DownloadCsvClick
  \/ PrintReportClick
  \/ PrintTimeout
  \/ NavClick

Spec == Init /\ [][Next]_vars

\* The detection of one file, for every outcome of the random counts: the
\* page right after one file was selected, its read in flight.
InitDetect ==
  /\ Blank
  /\ \E file \in Files : uploaded = <<file>>
  /\ pending = {1}
  /\ activeTab = "upload"

NextDetect ==
  \/ ReaderOnloadAny
  \/ ChartTimeout
  \/ DownloadCsvClick
  \/ PrintReportClick
  \/ PrintTimeout

SpecDetect == InitDetect /\ [][NextDetect]_vars

\* ------------------------------------------------------------ claims

\* A reader of CSV text: the rows of a document, each a sequence of fields.
\* A comma ends a field and a line break ends a row where an even number of
\* quotes comes before it; a field in quotes stands for the text between
\* them, a doubled quote for one quote.
SplitOutsideQuotes(s, ch) ==
  LET quotes == {j \in 1..Len(s) : CharAt(s, j) = "\""}
      breaks == {i \in 1..Len(s) :
                   /\ CharAt(s, i) = ch
                   /\ Cardinality({j \in quotes : j < i}) % 2 = 0}
      n      == Cardinality(breaks)
      at(k)  == IF k = 0 THEN 0
                ELSE IF k = n + 1 THEN Len(s) + 1
                ELSE CHOOSE x \in breaks : Cardinality({y \in breaks : y < x}) = k - 1
  IN [k \in 1..(n + 1) |-> SubSeq(s, at(k - 1) + 1, at(k) - 1)]

RECURSIVE Undouble(_)
Undouble(s) ==
  IF Len(s) = 0 THEN ""
  ELSE IF Len(s) >= 2 /\ SubSeq(s, 1, 2) = "\"\""
  THEN "\"" \o Undouble(SubSeq(s, 3, Len(s)))
  ELSE CharAt(s, 1) \o Undouble(SubSeq(s, 2, Len(s)))

Unquote(cell) ==
  IF Len(cell) >= 2 /\ CharAt(cell, 1) = "\"" /\ CharAt(cell, Len(cell)) = "\""
  THEN Undouble(SubSeq(cell, 2, Len(cell) - 1))
  ELSE cell

CsvRead(s) ==
  LET lines == SplitOutsideQuotes(s, "\n")
  IN [i \in 1..Len(lines) |->
        LET cells == SplitOutsideQuotes(lines[i], ",")
        IN [j \in 1..Len(cells) |-> Unquote(cells[j])]]

\* The category at the lowest index whose count is the greatest.
ArgmaxType(counts) ==
  TYPES[CHOOSE j \in 1..Len(counts) :
          /\ \A k \in 1..Len(counts) : counts[k] <= counts[j]
          /\ \A k \in 1..(j - 1) : counts[k] < counts[j]]

\* The decimal digit d as a character.
Digit(d) ==
  CASE d = 0 -> "0" [] d = 1 -> "1" [] d = 2 -> "2" [] d = 3 -> "3" [] d = 4 -> "4"
    [] d = 5 -> "5" [] d = 6 -> "6" [] d = 7 -> "7" [] d = 8 -> "8" [] d = 9 -> "9"

\* What the page shows besides the export outputs.
pageVars == <<allImages, cards, tableRows, charts, chartTimers, chartRuns>>

\* C1: the history store is append-only.  Every step leaves allImages as it
\* is or adds one record at its end, the records before it unchanged; and
\* its length is the number of reads that have completed (the files selected
\* less the reads still in flight).
C1_AppendOnly ==
  [][ /\ \/ allImages' = allImages
         \/ /\ Len(allImages') = Len(allImages) + 1
            /\ SubSeq(allImages', 1, Len(allImages)) = allImages
      /\ Len(allImages') = Len(uploaded') - Cardinality(pending') ]_vars

\* C1: two records are in the store, the charts were redrawn, a file was
\* exported and the other tab is shown.
C1_Witness ==
  /\ Len(allImages) >= 2
  /\ chartRuns >= 1
  /\ downloads # <<>>
  /\ activeTab = "history"

\* C2: the cards are the store newest first, the history-table rows are the
\* store oldest first, and both are as long as the store.
C2_Mirrors ==
  LET n == Len(allImages) IN
  /\ Len(cards) = n
  /\ Len(tableRows) = n
  /\ \A i \in 1..n :
       LET img == allImages[i] card == cards[n + 1 - i] tr == tableRows[i] IN
       /\ card.h3 = img.shortName
       /\ card.alt = img.shortName
       /\ card.size = img.size
       /\ card.accuracy = img.accuracy \o "%"
       /\ card.counts = "Counts: " \o NatToString(img.counts[1]) \o ", "
                          \o NatToString(img.counts[2]) \o ", "
                          \o NatToString(img.counts[3]) \o ", "
                          \o NatToString(img.counts[4])
       /\ tr.name = img.name
       /\ tr.size = img.size
       /\ tr.accuracy = img.accuracy \o "%"

\* C2: two different records, so that the two orders differ.
C2_Witness ==
  /\ Len(allImages) = 2
  /\ allImages[1].name # allImages[2].name
  /\ allImages[1].counts # allImages[2].counts

\* C3, as stated: once the reads are over, the records are in the order in
\* which their files were selected.
C3_UploadOrder ==
  pending = {} =>
    \A i \in 1..Len(allImages) : allImages[i].name = uploaded[i].name

\* C3, amended: the store is in completion order.  The onload of the read at
\* position p puts the record of that read's file at the end of the store,
\* after every record already there, wherever p stands among the files
\* selected.
C3_CompletionOrder ==
  [][ \A p \in pending :
        p \notin pending' =>
          /\ Len(allImages') = Len(allImages) + 1
          /\ SubSeq(allImages', 1, Len(allImages)) = allImages
          /\ allImages'[Len(allImages')].name = uploaded[p].name ]_vars

\* C3: two files selected together, the second read first.
C3_Witness ==
  /\ pending = {}
  /\ Len(uploaded) = 2
  /\ Len(allImages) = 2
  /\ uploaded[1].name # uploaded[2].name
  /\ allImages[1].name = uploaded[2].name
  /\ allImages[2].name = uploaded[1].name

\* The fields the CSV row of a record is to hold.
CsvFields(img) ==
  <<img.name, ArgmaxType(img.counts), img.size, img.accuracy \o "%",
    NatToString(img.counts[1]), NatToString(img.counts[2]),
    NatToString(img.counts[3]), NatToString(img.counts[4])>>

\* C4: a CSV export of a store of N >= 1 records hands over one document
\* that reads back as N + 1 rows of 8 fields: the header, then the row of
\* each record in store order; the store is as before.
C4_CsvExport ==
  [][ downloads' # downloads =>
        LET n    == Len(allImages)
            rows == <<(<<"Image", "DominantType", "Size", "Accuracy",
                         "Fiber", "Fragment", "Pellet", "Microbead">>)>>
                      \o [i \in 1..n |-> CsvFields(allImages[i])] IN
        /\ downloads' = Append(downloads, downloads'[Len(downloads')])
        /\ n >= 1
        /\ CsvRead(downloads'[Len(downloads')].content) = rows
        /\ Len(rows) = n + 1
        /\ \A i \in 1..Len(rows) : Len(rows[i]) = 8
        /\ allImages' = allImages ]_vars

\* C4: an export of two records, one with a quote and a comma in its name.
C4_Witness ==
  /\ downloads # <<>>
  /\ Len(allImages) = 2
  /\ Len(CsvRead(downloads[1].content)) = 3
  /\ \E i \in 1..2 : allImages[i].name = "a\",b.png"

\* C5: with an empty store, a click on either export button shows its
\* empty-history notice once and does nothing else.
C5_EmptyNotice ==
  [][ Len(allImages) = 0 =>
        /\ DownloadCsvClick =>
             /\ notices' = Append(notices, "No history to download.")
             /\ UNCHANGED <<downloads, openCalls, windows, printTimers, prints, pageVars>>
        /\ PrintReportClick =>
             /\ notices' = Append(notices, "No history to print.")
             /\ UNCHANGED <<downloads, openCalls, windows, printTimers, prints, pageVars>> ]_vars

\* C5: the print button was clicked on an empty store.
C5_Witness ==
  /\ notices = <<"No history to print.">>
  /\ windows = <<>>
  /\ uploaded = <<>>

\* C6: with records in the store and window.open() giving null, a click on
\* the print button calls window.open() once, shows the popup-blocked notice
\* and does nothing else; print() runs, or is pending, only for the
\* documents written.
C6_PopupBlocked ==
  [][ /\ (Len(allImages) > 0 /\ PrintReportWith(FALSE)) =>
           /\ notices' = Append(notices, "Popup blocked. Allow popups and try again.")
           /\ openCalls' = openCalls + 1
           /\ UNCHANGED <<downloads, windows, printTimers, prints, pageVars>>
      /\ prints' + printTimers' = Len(windows') ]_vars

\* C6: the popup was blocked.
C6_Witness ==
  /\ Len(allImages) > 0
  /\ \E i \in 1..Len(notices) : notices[i] = "Popup blocked. Allow popups and try again."

\* C7: every record of the store has 4 counts, each in 0..5, with a sum of
\* at least 1.
C7_CountsPositive ==
  \A i \in 1..Len(allImages) :
    LET c == allImages[i].counts IN
    /\ Len(c) = 4
    /\ \A j \in 1..4 : c[j] \in 0..5
    /\ c[1] + c[2] + c[3] + c[4] >= 1

\* C7: the record of a detection whose four draws were all 0.
C7_Witness ==
  /\ Len(allImages) = 1
  /\ allImages[1].counts = <<1, 0, 0, 0>>

\* C8: the dominant type of a record is the first category with the
\* greatest count, and that is what its card, its table row, its CSV row
\* and its report row say; none says "Unknown".
C8_DominantType ==
  LET n == Len(allImages) IN
  \A i \in 1..n :
    LET dom == ArgmaxType(allImages[i].counts) IN
    /\ dom # "Unknown"
    /\ i <= Len(cards) => cards[Len(cards) + 1 - i].domType = dom
    /\ i <= Len(tableRows) => tableRows[i].domType = dom
    /\ \A k \in 1..Len(downloads) :
         LET rows == CsvRead(downloads[k].content) IN
         i + 1 <= Len(rows) => rows[i + 1][2] = dom
    /\ \A k \in 1..Len(windows) :
         i <= Len(windows[k].rows) => windows[k].rows[i][2] = dom

\* C8: a record whose greatest count is shared by two categories, exported.
C8_Witness ==
  /\ Len(allImages) = 1
  /\ allImages[1].counts = <<2, 4, 4, 0>>
  /\ Len(cards) = 1
  /\ Len(tableRows) = 1
  /\ downloads # <<>>

\* C9, as stated: the completions of one delay window (their timers all
\* pending together) cause fewer executions of updateCharts than there
\* are completions.
C9_Coalesced ==
  (chartTimers = 0 /\ maxTimers >= 2 /\ maxTimers = Len(allImages)) =>
    chartRuns < Len(allImages)

\* C9, amended: nothing is coalesced.  Every read completion causes one
\* execution of updateCharts of its own: those run and those still pending
\* are as many as the records.
C9_OneRunPerCompletion ==
  chartRuns + chartTimers = Len(allImages)

\* C9: two completions in one delay window, and both timers have fired.
C9_Witness ==
  /\ maxTimers >= 2
  /\ chartTimers = 0
  /\ chartRuns = 2

\* C10: the charts show a prefix of the store, in store order: the labels
\* of both charts, the 4 composition series and the accuracy series have
\* one length, and hold the short names, the counts of each type and the
\* accuracies as numbers; with no read in flight and no chart timer
\* pending they show the whole store.
C10_ChartsProjection ==
  LET n == Len(charts.compLabels) IN
  /\ n <= Len(allImages)
  /\ Len(charts.accLabels) = n
  /\ Len(charts.accData) = n
  /\ Len(charts.compData) = 4
  /\ \A t \in 1..4 : Len(charts.compData[t]) = n
  /\ \A i \in 1..n :
       /\ charts.compLabels[i] = allImages[i].shortName
       /\ charts.accLabels[i] = allImages[i].shortName
       /\ \A t \in 1..4 : charts.compData[t][i] = allImages[i].counts[t]
       /\ allImages[i].accuracy =
            Digit(charts.accData[i] \div 100) \o Digit((charts.accData[i] \div 10) % 10)
              \o "." \o Digit(charts.accData[i] % 10)
  /\ (pending = {} /\ chartTimers = 0) => n = Len(allImages)

\* C10: the charts lag one record behind the store, and show a cut name.
C10_Witness ==
  /\ Len(allImages) = 2
  /\ Len(charts.compLabels) = 1
  /\ charts.compLabels[1] = "river_sample_01..."

====
